---- MODULE Spec2Model ----
(***************************************************************************)
(* A model of linkbay_ai: the conversation window (conversation.py), the   *)
(* semantic cache (semantic_cache.py) and the orchestration engine         *)
(* (core.py).                                                              *)
(*                                                                         *)
(* Three specifications share the definitions below:                       *)
(*   SpecConv   the ConversationContext object driven by its own methods   *)
(*   SpecCache  the SemanticCache object driven by get/put and the clock   *)
(*   Spec       the AIOrchestrator: register_provider and chat             *)
(***************************************************************************)
EXTENDS Integers, Sequences, FiniteSets, TLC

VARIABLES
    \* ConversationContext
    history,          \* self.history: sequence of Message
    total_tokens,     \* self.total_tokens
    max_messages,     \* self.config.max_messages
    lastConv,         \* the last method called on the context and the history it found
    \* SemanticCache
    cache,            \* self.cache: sequence of CacheEntry
    max_entries,      \* self.max_entries
    embeddings_available,  \* self._embeddings_available, fixed by the constructor
    now,              \* the clock datetime.now() reads, in hours
    lastCache         \* the last cache method called, its arguments and its result

    ,
    \* AIOrchestrator
    providers,        \* self.providers: sequence of adapters, each known by its name
    provider_priority,\* self.provider_priority: name -> priority
    provider_stats,   \* self.provider_stats: name -> [requests, successes, failures]
    enable_cache,     \* whether self.semantic_cache is a SemanticCache (not None)
    enable_tools,     \* whether self.tools_manager is a ToolsManager (not None)
    budget,           \* the cost controller: [used, limit] tokens of the current hour
    request_history,  \* self.request_history
    req,              \* the chat call in progress or last finished: its arguments,
                      \* locals, position (pc) and outcome
    exec,             \* the current _execute_with_fallback call: the adapters probed
                      \* available, the backend calls made, the counters it started from
    nchats,           \* chat calls started so far
    registered        \* the adapters register_provider was called with, in call order

convVars == <<history, total_tokens, max_messages, lastConv>>

cacheVars == <<cache, max_entries, embeddings_available, now, lastCache>>

orchVars == <<providers, provider_priority, provider_stats, enable_cache,
              enable_tools, budget, request_history, req, exec, nchats, registered>>

vars == <<convVars, cacheVars, orchVars>>

-----------------------------------------------------------------------------
(* Bounds of the model *)

\* largest configured max_messages explored
MaxMessages == 2
\* add_system_prompt never evicts, so the history is capped for the search
MaxHistory == 3
\* largest configured max_entries explored
MaxEntries == 2
\* cache_response never evicts, so the cache is capped for the search
MaxCacheLen == 2
\* the clock is advanced at most this many times
MaxTicks == 1
\* a get that would push a hit counter past this is not explored
MaxHits == 1
\* longest adapter list explored
MaxProviders == 3
\* largest max_retries a chat call is given
MaxRetries == 2
\* chat calls per behaviour
MaxChats == 1

-----------------------------------------------------------------------------
(* schemas.py: Message.  The timestamp field is never read by the code     *)
(* modelled here and is left out.  tokens: Optional[int] is the empty set  *)
(* for None and {n} for the integer n.                                     *)

NoTokens == {}

Roles == {"user", "assistant", "system"}

Contents == {"a", "b"}

TokenValues == {NoTokens, {0}, {1}, {2}}

Message(role, content, tokens) ==
    [role |-> role, content |-> content, tokens |-> tokens]

\* Python truthiness of an Optional[int]: None and 0 are false
Truthy(tokens) == tokens # NoTokens /\ tokens # {0}

TokenCount(tokens) == CHOOSE n \in tokens : TRUE

-----------------------------------------------------------------------------
(* conversation.py: ConversationContext.  A context value is the record    *)
(* [history, total_tokens]; every method is a function from the context    *)
(* before the call to the context after it.                                *)

Conv(h, t) == [history |-> h, total_tokens |-> t]

\* a plausible slip: eviction forgets to give the evicted tokens back
RECURSIVE manage_context_window_keeps_tokens(_, _)
manage_context_window_keeps_tokens(conv, maxm) ==
    IF Len(conv.history) > maxm
    THEN manage_context_window_keeps_tokens(
             Conv(Tail(conv.history), conv.total_tokens), maxm)
    ELSE conv

\* an eviction that spares a system message at the front and removes the
\* message behind it
RECURSIVE manage_context_window_spares_system(_, _)
manage_context_window_spares_system(conv, maxm) ==
    IF Len(conv.history) > maxm
    THEN LET h == conv.history
             spare == Len(h) >= 2 /\ h[1].role = "system"
             removed == IF spare THEN h[2] ELSE h[1]
             rest == IF spare THEN <<h[1]>> \o SubSeq(h, 3, Len(h)) ELSE Tail(h)
             total == IF Truthy(removed.tokens)
                      THEN conv.total_tokens - TokenCount(removed.tokens)
                      ELSE conv.total_tokens
         IN  manage_context_window_spares_system(Conv(rest, total), maxm)
    ELSE conv

\* _manage_context_window: while len(history) > max_messages: pop(0)
RECURSIVE manage_context_window(_, _)
manage_context_window(conv, maxm) ==
    IF Len(conv.history) > maxm
    THEN LET removed == Head(conv.history)
             total   == IF Truthy(removed.tokens)
                        THEN conv.total_tokens - TokenCount(removed.tokens)
                        ELSE conv.total_tokens
         IN  manage_context_window(Conv(Tail(conv.history), total), maxm)
    ELSE conv

\* add_message: append, add the tokens if truthy, then manage the window
add_message(conv, maxm, role, content, tokens) ==
    LET h1 == Append(conv.history, Message(role, content, tokens))
        t1 == IF Truthy(tokens)
              THEN conv.total_tokens + TokenCount(tokens)
              ELSE conv.total_tokens
    IN  manage_context_window(Conv(h1, t1), maxm)

\* add_system_prompt: history.insert(0, system_msg); nothing else
add_system_prompt(conv, prompt) ==
    Conv(<<Message("system", prompt, NoTokens)>> \o conv.history,
         conv.total_tokens)

\* clear: history.clear(); total_tokens = 0
clear(conv) == Conv(<<>>, 0)

\* get_messages(last_n): `if last_n: return self.history[-last_n:]`, else
\* self.history.  last_n is {} for None and {n} otherwise; the slice
\* h[-n:] starts at max(len - n, 0) for n > 0 and at min(-n, len) for n < 0.
get_messages(h, last_n) ==
    IF last_n # {} /\ last_n # {0}
    THEN LET n == CHOOSE x \in last_n : TRUE
             start == IF n > 0
                      THEN (IF Len(h) - n > 0 THEN Len(h) - n ELSE 0)
                      ELSE (IF -n < Len(h) THEN -n ELSE Len(h))
         IN  SubSeq(h, start + 1, Len(h))
    ELSE h

CurConv == Conv(history, total_tokens)

SetConv(conv, op) ==
    /\ history' = conv.history
    /\ total_tokens' = conv.total_tokens
    /\ lastConv' = [op |-> op, prev |-> history]
    /\ UNCHANGED <<max_messages, cacheVars, orchVars>>

ConvInit ==
    /\ history = <<>>
    /\ total_tokens = 0
    /\ max_messages \in 0..MaxMessages
    /\ lastConv = [op |-> "init", prev |-> <<>>]

\* lastCache records the last call on the cache: for a get its query, for
\* both whether model.encode returned (embedded), the value returned
\* (result), the index of the matched entry in the cache afterwards (match,
\* 0 for none), the response of a cache_response for the same query that
\* this get directly follows within the ttl (followsPut), whether the call
\* found entries expired (pruned: "none", "some", or "similar" when one of
\* them reached the threshold for the query) and whether it discarded some
\* for capacity (evicted).  What a cache_response stored is the last entry of the cache.
CacheOp(op, query, embedded, result, match, followsPut, pruned, evicted) ==
    [op |-> op, query |-> query, embedded |-> embedded,
     result |-> result, match |-> match, followsPut |-> followsPut,
     pruned |-> pruned, evicted |-> evicted]

NoCacheOp == CacheOp("init", "", FALSE, {}, 0, {}, "none", FALSE)

CacheIdle ==
    /\ cache = <<>>
    /\ max_entries = 0
    /\ embeddings_available = FALSE
    /\ now = 0
    /\ lastCache = NoCacheOp

EmptyFunction == [x \in {} |-> 0]

\* req is the chat or chat_stream call in progress: its arguments, its local
\* variables and its position (pc).  history0 is the conversation the call
\* found, delivered the fragments its caller has received, spent the sum of
\* tokens_used of the backend responses it has been given so far, and
\* checked whether check_budget has been called for it and has passed.
NoRequest ==
    [pc |-> "idle", prompt |-> "", model |-> "", use_conversation |-> FALSE,
     use_cache |-> FALSE, max_retries |-> 0, aliased |-> FALSE,
     messages |-> <<>>, round |-> 0, idx |-> 0, attempt |-> 0,
     response |-> {}, error |-> "",
     full_response |-> <<>>, delivered |-> <<>>, history0 |-> <<>>,
     spent |-> 0, checked |-> FALSE]

\* exec records one _execute_with_fallback call: the length of the adapter
\* list it found, the list positions whose is_available() it has called
\* (probed) and those that answered true (available), the provider.chat
\* calls it has made with their outcome, and the counters it started from.
\* For a chat_stream call it records the same for the adapter loop of
\* chat_stream, with the provider.stream calls in streams: the list
\* position streamed, the adapter there and its priority, the messages
\* passed, the fragments it has yielded,
\* how many fragments the caller had received when it was started, and
\* whether it is open, has completed ("done") or has raised ("failed").
NoExec ==
    [nproviders |-> 0, probed |-> {}, available |-> {}, calls |-> <<>>,
     stats0 |-> EmptyFunction, streams |-> <<>>]

OrchIdle ==
    /\ providers = <<>>
    /\ provider_priority = EmptyFunction
    /\ provider_stats = EmptyFunction
    /\ enable_cache = FALSE
    /\ enable_tools = FALSE
    /\ budget = [used |-> 0, limit |-> 0]
    /\ request_history = <<>>
    /\ req = NoRequest
    /\ exec = NoExec
    /\ nchats = 0
    /\ registered = <<>>

ConvInitOnly == ConvInit /\ CacheIdle /\ OrchIdle

ConvAddMessage ==
    \E role \in {"user", "assistant"}, content \in Contents, tokens \in TokenValues :
        /\ Len(history) < MaxHistory
        /\ SetConv(add_message(CurConv, max_messages, role, content, tokens),
                   "add_message")

ConvAddSystemPrompt ==
    \E prompt \in {"s"} :
        /\ Len(history) < MaxHistory
        /\ SetConv(add_system_prompt(CurConv, prompt), "add_system_prompt")

ConvClear == SetConv(clear(CurConv), "clear")

\* the arguments of get_messages: None, and the integers around the
\* lengths a history can have
LastNs == {{}} \cup {{n} : n \in (-1)..(MaxHistory + 1)}

\* get_messages(last_n): lastConv keeps the argument and the list returned
ConvGetMessages ==
    \E last_n \in LastNs :
        /\ lastConv' = [op |-> "get_messages", prev |-> history,
                        last_n |-> last_n,
                        result |-> get_messages(history, last_n)]
        /\ UNCHANGED <<history, total_tokens, max_messages, cacheVars, orchVars>>

ConvNext == ConvAddMessage \/ ConvAddSystemPrompt \/ ConvClear \/ ConvGetMessages

SpecConv == ConvInitOnly /\ [][ConvNext]_vars

-----------------------------------------------------------------------------
(* Claims about the conversation window *)

RECURSIVE SumTokens(_)
SumTokens(h) ==
    IF h = <<>> THEN 0
    ELSE (IF Head(h).tokens = NoTokens THEN 0 ELSE TokenCount(Head(h).tokens))
         + SumTokens(Tail(h))

\* C5: after any sequence of add_message, add_system_prompt and clear, the
\* history holds at most max_messages messages.
C5_LengthWithinMax == Len(history) <= max_messages

\* C6: the running token total is the sum of the token counts of the
\* retained messages (a missing count is 0), is 0 after clear and is never
\* negative.
C6_TotalIsSumOfRetained ==
    /\ total_tokens = SumTokens(history)
    /\ lastConv.op = "clear" => total_tokens = 0
    /\ total_tokens >= 0

\* an append that evicted a message carrying tokens and left a total above 0
C6_Witness ==
    /\ lastConv.op = "add_message"
    /\ Len(lastConv.prev) >= 1
    /\ Len(lastConv.prev) >= max_messages
    /\ Truthy(lastConv.prev[1].tokens)
    /\ total_tokens > 0

-----------------------------------------------------------------------------
(* semantic_cache.py: SemanticCache.  A CacheEntry is the record           *)
(* [query, response, timestamp, hits]; its embedding is Embedding(query),  *)
(* what the sentence encoder returns for that text.  Time is counted in    *)
(* hours.  A response of Optional[str] is {} for None and {text} otherwise.*)

Queries == {"q1", "q2", "q3"}

Responses == {"r1", "r2"}

\* ttl_hours = 24, the constructor's default
TtlHours == 24

\* the clock is advanced one ttl at a time: an entry is of age 0, ttl, 2 ttl, ...
TickHours == TtlHours

\* similarity_threshold = 0.95 as the fraction ThresholdNum / ThresholdDen
ThresholdNum == 19
ThresholdDen == 20

\* model.encode(text): q1 and q2 are near-duplicates (cosine 4/sqrt(17),
\* about 0.970), q3 is orthogonal to q1
Embedding(text) ==
    CASE text = "q1" -> <<1, 0>>
      [] text = "q2" -> <<4, 1>>
      [] text = "q3" -> <<0, 1>>
      [] OTHER       -> <<1, 1>>

Dot(a, b) == a[1] * b[1] + a[2] * b[2]

\* _cosine_similarity(a, b) >= threshold, in exact arithmetic:
\* dot / (|a| |b|) >= num / den  with num, den > 0
SimilarityAtLeastThreshold(a, b) ==
    /\ Dot(a, b) > 0
    /\ Dot(a, b) * Dot(a, b) * ThresholdDen * ThresholdDen
         >= ThresholdNum * ThresholdNum * Dot(a, a) * Dot(b, b)

\* _cosine_similarity(q, a) > _cosine_similarity(q, b) for two vectors whose
\* similarity to q is positive
SimilarityGreater(q, a, b) ==
    Dot(q, a) * Dot(q, a) * Dot(b, b) > Dot(q, b) * Dot(q, b) * Dot(a, a)

CacheEntry(query, response, timestamp) ==
    [query |-> query, response |-> response, timestamp |-> timestamp, hits |-> 0]

RECURSIVE SelectSeqBy(_, _, _)
SelectSeqBy(s, t, ttl) ==
    IF s = <<>> THEN <<>>
    ELSE IF t - Head(s).timestamp < ttl
         THEN <<Head(s)>> \o SelectSeqBy(Tail(s), t, ttl)
         ELSE SelectSeqBy(Tail(s), t, ttl)

\* one step of a stable sort on hits, descending: e goes after every entry
\* whose hits are >= its own
RECURSIVE InsertByHits(_, _)
InsertByHits(s, e) ==
    IF s = <<>> THEN <<e>>
    ELSE IF Head(s).hits >= e.hits
         THEN <<Head(s)>> \o InsertByHits(Tail(s), e)
         ELSE <<e>> \o s

\* a plausible slip: the sort is ascending, so the most used entries go last
RECURSIVE InsertByHitsAscending(_, _)
InsertByHitsAscending(s, e) ==
    IF s = <<>> THEN <<e>>
    ELSE IF Head(s).hits <= e.hits
         THEN <<Head(s)>> \o InsertByHitsAscending(Tail(s), e)
         ELSE <<e>> \o s

RECURSIVE SortAscending(_, _)
SortAscending(s, acc) ==
    IF s = <<>> THEN acc
    ELSE SortAscending(Tail(s), InsertByHitsAscending(acc, Head(s)))

sort_by_hits_ascending(s) == SortAscending(s, <<>>)

RECURSIVE SortDescending(_, _)
SortDescending(s, acc) ==
    IF s = <<>> THEN acc
    ELSE SortDescending(Tail(s), InsertByHits(acc, Head(s)))

\* self.cache.sort(key=lambda x: x.hits, reverse=True): stable
sort_by_hits(s) == SortDescending(s, <<>>)

\* the same filter with <= for <: it lets an entry of age = ttl through
unexpired_inclusive(s, t) == SelectSeqBy(s, t, TtlHours + 1)

\* the list comprehension of _cleanup_old_entries: keep now - timestamp < ttl
unexpired(s, t) == SelectSeqBy(s, t, TtlHours)

\* _cleanup_old_entries
cleanup_old_entries(s, t, maxe) ==
    LET kept == unexpired(s, t)
    IN  IF Len(kept) > maxe
        THEN SubSeq(sort_by_hits(kept), 1, maxe)
        ELSE kept

\* a plausible slip: >= for > in the comparison with best_similarity, which
\* lets a later entry of equal similarity replace the match
RECURSIVE best_match_keeps_latest(_, _, _, _)
best_match_keeps_latest(s, q, i, best) ==
    IF i > Len(s) THEN best
    ELSE LET e == Embedding(s[i].query)
             better ==
                 /\ SimilarityAtLeastThreshold(q, e)
                 /\ (best = 0 \/ ~SimilarityGreater(q, Embedding(s[best].query), e))
         IN  best_match_keeps_latest(s, q, i + 1, IF better THEN i ELSE best)

\* the loop of get_cached_response: the index of best_match after entries
\* i..Len(s) have been visited, 0 for None
RECURSIVE best_match(_, _, _, _)
best_match(s, q, i, best) ==
    IF i > Len(s) THEN best
    ELSE LET e == Embedding(s[i].query)
             better ==
                 /\ SimilarityAtLeastThreshold(q, e)
                 /\ (best = 0 \/ SimilarityGreater(q, e, Embedding(s[best].query)))
         IN  best_match(s, q, i + 1, IF better THEN i ELSE best)

\* get_cached_response(query); embedded says whether model.encode returned.
\* The result is [cache, result, match]: the cache afterwards, the value
\* returned and the index of the matched entry (0 for a miss).
get_cached_response(s, avail, embedded, t, maxe, query) ==
    IF ~avail
    THEN [cache |-> s, result |-> {}, match |-> 0]
    ELSE LET s1 == cleanup_old_entries(s, t, maxe)
         IN  IF ~embedded
             THEN [cache |-> s1, result |-> {}, match |-> 0]
             ELSE LET m == best_match(s1, Embedding(query), 1, 0)
                  IN  IF m # 0
                      THEN [cache |-> [s1 EXCEPT ![m].hits = @ + 1],
                            result |-> {s1[m].response}, match |-> m]
                      ELSE [cache |-> s1, result |-> {}, match |-> 0]

\* a plausible slip: the entry is stored although no embedding was produced
cache_response_without_embedding(s, avail, embedded, t, query, response) ==
    Append(s, CacheEntry(query, response, t))

\* cache_response(query, response)
cache_response(s, avail, embedded, t, query, response) ==
    IF ~avail \/ ~embedded
    THEN s
    ELSE Append(s, CacheEntry(query, response, t))

CacheInit ==
    /\ cache = <<>>
    /\ max_entries \in 0..MaxEntries
    /\ embeddings_available \in BOOLEAN
    /\ now = 0
    /\ lastCache = NoCacheOp

CacheInitOnly ==
    /\ CacheInit
    /\ history = <<>>
    /\ total_tokens = 0
    /\ max_messages = 0
    /\ lastConv = [op |-> "init", prev |-> <<>>]
    /\ OrchIdle

\* model.encode raises only if there is a model to call
EncodeOutcomes == IF embeddings_available THEN BOOLEAN ELSE {FALSE}

\* a call of get_cached_response: the cache afterwards, the value returned
\* and the record of the call
GetCall(query, embedded) ==
    LET r == get_cached_response(cache, embeddings_available, embedded,
                                 now, max_entries, query)
        nkept == Len(unexpired(cache, now))
        ran == embeddings_available
        follows ==
            IF /\ lastCache.op = "put" /\ lastCache.embedded
               /\ cache[Len(cache)].query = query
               /\ now - cache[Len(cache)].timestamp < TtlHours
            THEN {cache[Len(cache)].response} ELSE {}
        pruned ==
            IF ~ran \/ nkept = Len(cache) THEN "none"
            ELSE IF \E i \in 1..Len(cache) :
                      /\ now - cache[i].timestamp >= TtlHours
                      /\ SimilarityAtLeastThreshold(Embedding(query),
                                                    Embedding(cache[i].query))
                 THEN "similar" ELSE "some"
    IN  [cache |-> r.cache, result |-> r.result,
         last |-> CacheOp("get", query, embedded, r.result, r.match, follows,
                          pruned, ran /\ Len(r.cache) < nkept)]

\* a call of cache_response
PutCall(query, response, embedded) ==
    [cache |-> cache_response(cache, embeddings_available, embedded, now,
                              query, response),
     last |-> CacheOp("put", "", embedded, {}, 0, {}, "none", FALSE)]

WithinHits(s) == \A i \in 1..Len(s) : s[i].hits <= MaxHits

CacheGet ==
    \E query \in Queries, embedded \in EncodeOutcomes :
        \E g \in {GetCall(query, embedded)} :
            /\ WithinHits(g.cache)
            /\ cache' = g.cache
            /\ lastCache' = g.last
            /\ UNCHANGED <<max_entries, embeddings_available, now, convVars,
                           orchVars>>

CachePut ==
    \E query \in Queries, response \in Responses, embedded \in EncodeOutcomes :
        \E c \in {PutCall(query, response, embedded)} :
            /\ Len(cache) < MaxCacheLen
            /\ cache' = c.cache
            /\ lastCache' = c.last
            /\ UNCHANGED <<max_entries, embeddings_available, now, convVars,
                           orchVars>>

\* time passes between calls
Tick ==
    /\ now < MaxTicks * TickHours
    /\ now' = now + TickHours
    /\ UNCHANGED <<cache, max_entries, embeddings_available, lastCache, convVars,
                   orchVars>>

CacheNext == CacheGet \/ CachePut \/ Tick

SpecCache == CacheInitOnly /\ [][CacheNext]_vars

-----------------------------------------------------------------------------
(* Claims about the semantic cache *)

\* a step that is a call of get_cached_response / of cache_response
GetStep == lastCache'.op = "get" /\ now' = now

PutStep == lastCache'.op = "put" /\ now' = now

Fresh(e, t) == t - e.timestamp < TtlHours

Similar(query, e) ==
    SimilarityAtLeastThreshold(Embedding(query), Embedding(e.query))

Count(s, e) == Cardinality({i \in 1..Len(s) : s[i] = e})

Entries(s) == {s[i] : i \in 1..Len(s)}

\* C7: with embeddings available, a get(q) that follows put(q, r) before r's
\* ttl has elapsed returns r.
C7_GetAfterPutReturnsIt ==
    (lastCache.op = "get" /\ lastCache.embedded /\ lastCache.followsPut # {})
        => lastCache.result = lastCache.followsPut

\* C8: a get leaves no entry of age >= ttl in the cache, and what it returns
\* is the response of an entry that was younger than ttl and reached the
\* threshold; expired entries are never returned, whatever their similarity.
C8_ExpiredNeverReturned ==
    [][GetStep =>
        /\ \A i \in 1..Len(cache') : Fresh(cache'[i], now)
        /\ \A r \in lastCache'.result :
               \E i \in 1..Len(cache) :
                   /\ Fresh(cache[i], now)
                   /\ Similar(lastCache'.query, cache[i])
                   /\ cache[i].response = r
        /\ (\A i \in 1..Len(cache) :
                Similar(lastCache'.query, cache[i]) => ~Fresh(cache[i], now))
               => lastCache'.result = {}]_vars

\* a get that found an expired entry reaching the threshold for its query,
\* removed it and reported a miss
C8_Witness ==
    /\ lastCache.op = "get"
    /\ lastCache.embedded
    /\ lastCache.pruned = "similar"
    /\ lastCache.result = {}

\* the cache of a get step before the hit counter of the match was raised
BeforeHit(s, match) ==
    IF match = 0 THEN s ELSE [s EXCEPT ![match].hits = @ - 1]

\* C9: when a get finds more than max_entries unexpired entries, exactly
\* max_entries of them remain, and every retained entry has at least the
\* hits of every discarded one.
C9_EvictionKeepsMostHit ==
    [][(GetStep /\ embeddings_available) =>
        LET kept      == SelectSeq(cache, LAMBDA e : Fresh(e, now))
            after     == BeforeHit(cache', lastCache'.match)
            discarded == {e \in Entries(kept) : Count(kept, e) > Count(after, e)}
        IN  Len(kept) > max_entries =>
                /\ Len(cache') = max_entries
                /\ \A e \in Entries(after) : Count(after, e) <= Count(kept, e)
                /\ \A e \in Entries(after), d \in discarded : e.hits >= d.hits
      ]_vars

\* a get that discarded entries for capacity and kept one that had been hit
C9_Witness ==
    /\ lastCache.op = "get"
    /\ lastCache.evicted
    /\ max_entries >= 1
    /\ Len(cache) = max_entries
    /\ \E i \in 1..Len(cache) : BeforeHit(cache, lastCache.match)[i].hits >= 1

\* C10 as stated: when no embedding is produced, a get is a miss and neither
\* get nor put changes the cache.
C10_NoEmbeddingNoChange ==
    [][((GetStep \/ PutStep) /\ ~lastCache'.embedded) =>
        /\ lastCache'.result = {}
        /\ cache' = cache]_vars

\* C10 amended: when no embedding is produced, a get is a miss and a put
\* stores nothing; with no embedding capability the cache is untouched; when
\* only model.encode fails, a get has still run its cleanup, so entries may
\* be gone, but no entry is added, no hit counter changes, and nothing is
\* removed from a cache that has no expired entry and is within capacity.
C10_NoEmbeddingMissAndNoStore ==
    [][((GetStep \/ PutStep) /\ ~lastCache'.embedded) =>
        /\ lastCache'.result = {}
        /\ (~embeddings_available \/ lastCache'.op = "put") => cache' = cache
        /\ \A e \in Entries(cache') : Count(cache', e) <= Count(cache, e)
        /\ ((\A i \in 1..Len(cache) : Fresh(cache[i], now))
              /\ Len(cache) <= max_entries) => cache' = cache]_vars

\* a get whose model.encode failed, after it had removed expired entries
C10_Witness ==
    /\ lastCache.op = "get"
    /\ embeddings_available
    /\ ~lastCache.embedded
    /\ lastCache.pruned # "none"
    /\ lastCache.result = {}

-----------------------------------------------------------------------------
(* cost_controller.py is not among the sources; the budget governor is     *)
(* modelled from the specification (4.2) with one ceiling, the hourly      *)
(* token ceiling: check_budget fails when usage + estimate would exceed    *)
(* it and changes nothing; record_usage adds the actual consumption.       *)

HourlyLimit == 4

check_budget(b, estimated_tokens) == b.used + estimated_tokens <= b.limit

record_usage(b, tokens) == [b EXCEPT !.used = @ + tokens]

-----------------------------------------------------------------------------
(* core.py: _smart_route_model.  A prompt is a sequence of characters.      *)

\* bound: a prompt is made of at most MaxChunks chunks
MaxChunks == 3

UpperCase ==
    <<"A", "B", "C", "D", "E", "F", "G", "H", "I", "J", "K", "L", "M", "N", "O", "P", "Q", "R", "S", "T", "U", "V", "W", "X", "Y", "Z", "È", "É">>

LowerCase ==
    <<"a", "b", "c", "d", "e", "f", "g", "h", "i", "j", "k", "l", "m", "n", "o", "p", "q", "r", "s", "t", "u", "v", "w", "x", "y", "z", "è", "é">>

\* str.lower() on one character
LowerChar(c) ==
    IF \E i \in 1..Len(UpperCase) : UpperCase[i] = c
    THEN LowerCase[CHOOSE i \in 1..Len(UpperCase) : UpperCase[i] = c]
    ELSE c

\* prompt.lower()
lower(text) == [i \in 1..Len(text) |-> LowerChar(text[i])]

\* keyword in prompt_lower: the substring test of Python's `in`
Contains(text, keyword) ==
    \E i \in 1..(Len(text) - Len(keyword) + 1) :
        SubSeq(text, i, i + Len(keyword) - 1) = keyword

reasoning_keywords ==
    << <<"a", "n", "a", "l", "i", "z", "z", "a">>,
       <<"r", "a", "g", "i", "o", "n", "a">>,
       <<"s", "p", "i", "e", "g", "a", " ", "p", "e", "r", "c", "h", "é">>,
       <<"c", "o", "n", "f", "r", "o", "n", "t", "a">>,
       <<"v", "a", "l", "u", "t", "a">>,
       <<"q", "u", "a", "l", "e", " ", "è", " ", "m", "e", "g", "l", "i", "o">>,
       <<"p", "r", "o", " ", "e", " ", "c", "o", "n", "t", "r", "o">>,
       <<"c", "a", "l", "c", "o", "l", "a">>,
       <<"r", "i", "s", "o", "l", "v", "i">>,
       <<"d", "i", "m", "o", "s", "t", "r", "a">>,
       <<"d", "e", "d", "u", "c", "e">> >>

simple_keywords ==
    << <<"t", "r", "a", "d", "u", "c", "i">>,
       <<"r", "i", "a", "s", "s", "u", "m", "i">>,
       <<"l", "i", "s", "t", "a">>,
       <<"e", "l", "e", "n", "c", "a">>,
       <<"g", "e", "n", "e", "r", "a", " ", "h", "t", "m", "l">>,
       <<"f", "o", "r", "m", "a", "t", "o", " ", "j", "s", "o", "n">> >>

\* any(keyword in text for keyword in keywords)
any_keyword_in(keywords, text) ==
    \E k \in 1..Len(keywords) : Contains(text, keywords[k])

\* the same routine with the simple keywords tested first
smart_route_model_simple_first(prompt) ==
    LET prompt_lower == lower(prompt)
    IN  IF any_keyword_in(simple_keywords, prompt_lower) THEN "deepseek-chat"
        ELSE IF any_keyword_in(reasoning_keywords, prompt_lower)
             THEN "deepseek-reasoner"
             ELSE "deepseek-chat"

\* _smart_route_model
smart_route_model(prompt) ==
    LET prompt_lower == lower(prompt)
    IN  IF any_keyword_in(reasoning_keywords, prompt_lower)
        THEN "deepseek-reasoner"
        ELSE IF any_keyword_in(simple_keywords, prompt_lower)
             THEN "deepseek-chat"
             ELSE "deepseek-chat"

\* the pieces prompts are built from: words in several letter cases, a
\* space, and halves of keywords that only match once they are joined
Chunks ==
    { <<"c", "i", "a", "o">>,
      <<" ">>,
      <<"C", "a", "l", "c", "o", "l", "a">>,
      <<"T", "R", "A", "D", "U", "C", "I">>,
      <<"l", "i", "s", "t", "a">>,
      <<"P", "R", "O", " ", "E">>,
      <<" ", "C", "O", "N", "T", "R", "O">>,
      <<"d", "e", "d", "u">>,
      <<"c", "e">> }

-----------------------------------------------------------------------------
(* core.py: AIOrchestrator *)

ProviderNames == {"deepseek", "openai"}

Priorities == {1, 2}

Prompts == {"q1", "q3"}

\* the text of the prompts chat is called with: q1 is a one-word prompt,
\* q3 a three-word prompt that holds a reasoning keyword
PromptText(prompt) ==
    IF prompt = "q3"
    THEN <<"C", "a", "l", "c", "o", "l", "a", " ", "c", "i", "a", "o", " ", "c", "i", "a", "o">>
    ELSE <<"c", "i", "a", "o">>

\* len(text.split()): the number of maximal runs of non-blank characters
word_count(text) ==
    Cardinality({i \in 1..Len(text) :
                     text[i] # " " /\ (i = 1 \/ text[i - 1] = " ")})

\* len(prompt.split())
WordCount(prompt) == word_count(PromptText(prompt))

\* what a backend's chat can return: content, tokens_used, tool_calls
Replies ==
    { [content |-> "r1", tokens_used |-> 1, tool_calls |-> FALSE],
      [content |-> "",   tokens_used |-> 0, tool_calls |-> FALSE],
      [content |-> "r2", tokens_used |-> 1, tool_calls |-> TRUE] }

AIResponse(content, model, provider, tokens_used, cached, tool_calls) ==
    [content |-> content, model |-> model, provider |-> provider,
     tokens_used |-> tokens_used, cached |-> cached, tool_calls |-> tool_calls]

ZeroStats == [requests |-> 0, successes |-> 0, failures |-> 0]

\* one step of a stable sort ascending on the priority of the name
RECURSIVE InsertByPriority(_, _, _)
InsertByPriority(s, name, prio) ==
    IF s = <<>> THEN <<name>>
    ELSE IF prio[Head(s)] <= prio[name]
         THEN <<Head(s)>> \o InsertByPriority(Tail(s), name, prio)
         ELSE <<name>> \o s

RECURSIVE SortByPriority(_, _, _)
SortByPriority(s, acc, prio) ==
    IF s = <<>> THEN acc
    ELSE SortByPriority(Tail(s), InsertByPriority(acc, Head(s), prio), prio)

\* one step of a sort that puts the name before the names of its priority
RECURSIVE InsertBeforeEquals(_, _, _)
InsertBeforeEquals(s, name, prio) ==
    IF s = <<>> THEN <<name>>
    ELSE IF prio[Head(s)] < prio[name]
         THEN <<Head(s)>> \o InsertBeforeEquals(Tail(s), name, prio)
         ELSE <<name>> \o s

RECURSIVE SortTiesReversed(_, _, _)
SortTiesReversed(s, acc, prio) ==
    IF s = <<>> THEN acc
    ELSE SortTiesReversed(Tail(s), InsertBeforeEquals(acc, Head(s), prio), prio)

\* a sort on the same key that is not stable: ties come out reversed
sort_providers_ties_reversed(s, prio) == SortTiesReversed(s, <<>>, prio)

\* self.providers.sort(key=lambda p: self.provider_priority[p.name]): stable
sort_providers(s, prio) == SortByPriority(s, <<>>, prio)

\* register_provider(provider, priority): the registry afterwards
register_provider(reg, name, priority) ==
    LET prio == [n \in DOMAIN reg.priority \cup {name} |->
                     IF n = name THEN priority ELSE reg.priority[n]]
    IN  [providers |-> sort_providers(Append(reg.providers, name), prio),
         priority  |-> prio,
         stats     |-> [n \in DOMAIN reg.stats \cup {name} |->
                            IF n \in DOMAIN reg.stats THEN reg.stats[n]
                            ELSE ZeroStats]]

Quiet == req.pc \in {"idle", "done", "failed"}

\* register_provider is called between requests
Register ==
    \E name \in ProviderNames, priority \in Priorities :
        /\ Quiet
        /\ Len(providers) < MaxProviders
        /\ \E reg \in {register_provider([providers |-> providers,
                                          priority |-> provider_priority,
                                          stats |-> provider_stats],
                                         name, priority)} :
               /\ providers' = reg.providers
               /\ provider_priority' = reg.priority
               /\ provider_stats' = reg.stats
        /\ registered' = Append(registered, name)
        /\ UNCHANGED <<enable_cache, enable_tools, budget, request_history, req,
                       exec, nchats, convVars, cacheVars>>

\* the prompt enters the conversation only with the answer, at the commit
append_prompt_at_commit(conv, maxm, use_conversation, prompt) == conv

\* `if use_conversation: self.conversation.add_message("user", prompt)`,
\* step 2 of chat and the head of chat_stream
append_prompt(conv, maxm, use_conversation, prompt) ==
    IF use_conversation
    THEN add_message(conv, maxm, "user", prompt, NoTokens)
    ELSE conv

\* the list `messages` of a request: the history object itself after
\* get_messages() (which returns self.history, not a copy), or its own list
Messages(r, h) == IF r.aliased THEN h ELSE r.messages

Bump(stats, name, field) == [stats EXCEPT ![name][field] = @ + 1]

\* an except branch that logs the failure and does not count it
record_failure_uncounted(stats, name) == stats

\* `stats["failures"] += 1` in the except branch of _execute_with_fallback
record_failure(stats, name) == Bump(stats, name, "failures")

\* raise AllProvidersFailedException(...) at the end of _execute_with_fallback
Raise(r, error) == [r EXCEPT !.pc = "failed", !.error = error]

\* a plausible slip: the guard on an empty adapter list is missing
begin_execute_unguarded(r, provs, round) ==
    IF provs = <<>>
    THEN [Raise(r, "AllProvidersFailed") EXCEPT !.round = round]
    ELSE [r EXCEPT !.pc = "probe", !.round = round, !.idx = 1, !.attempt = 0]

\* the head of _execute_with_fallback: `if not self.providers: raise
\* ValueError`, else the loop starts at the first adapter
begin_execute(r, provs, round) ==
    IF provs = <<>>
    THEN [Raise(r, "ValueError") EXCEPT !.round = round]
    ELSE [r EXCEPT !.pc = "probe", !.round = round, !.idx = 1, !.attempt = 0]

\* a plausible slip: the except branch logs the error and does not re-raise
budget_gate_swallows(r, b, estimated_tokens) == r

\* step 4 of chat: try: check_budget(...) except BudgetExceededException: raise
budget_gate(r, b, estimated_tokens) ==
    IF check_budget(b, estimated_tokens)
    THEN [r EXCEPT !.checked = TRUE]
    ELSE Raise(r, "BudgetExceeded")

\* a plausible slip: the availability of the adapter is not looked at
skip_provider_never(avail) == FALSE

\* `if not provider.is_available(): continue`
skip_provider(avail) == ~avail

\* the same test made after every _execute_with_fallback, as a loop would
resolve_tool_calls_chained(r, response, tools) == response.tool_calls /\ tools

\* step 7 of chat, `if response.tool_calls and self.tools_manager:`, stands
\* between the first _execute_with_fallback and the second and is not
\* reached again after the second
resolve_tool_calls(r, response, tools) ==
    r.round = 1 /\ response.tool_calls /\ tools

\* the outer for loop moves to the next adapter, or falls out of the loop
next_provider(r, provs) ==
    IF r.idx + 1 > Len(provs)
    THEN Raise(r, "AllProvidersFailed")
    ELSE [r EXCEPT !.pc = "probe", !.idx = @ + 1, !.attempt = 0]

NewExec(provs, stats) ==
    [nproviders |-> Len(provs), probed |-> {}, available |-> {},
     calls |-> <<>>, stats0 |-> stats, streams |-> <<>>]

\* the provider.chat call in flight has ended: response is {} when it raised
Called(response) ==
    [exec EXCEPT !.calls = Append(@, [idx |-> req.idx,
                                      name |-> providers[req.idx],
                                      priority |-> provider_priority[providers[req.idx]],
                                      messages |-> Messages(req, history),
                                      ok |-> response # {},
                                      response |-> response])]

OrchInit ==
    /\ providers = <<>>
    /\ provider_priority = EmptyFunction
    /\ provider_stats = EmptyFunction
    /\ enable_cache \in BOOLEAN
    /\ enable_tools \in BOOLEAN
    /\ budget = [used |-> 0, limit |-> HourlyLimit]
    /\ request_history = <<>>
    /\ req = NoRequest
    /\ exec = NoExec
    /\ nchats = 0
    /\ registered = <<>>
    /\ history = <<>>
    /\ total_tokens = 0
    /\ max_messages = MaxMessages
    /\ lastConv = [op |-> "init", prev |-> <<>>]
    /\ cache = <<>>
    /\ max_entries = MaxEntries
    /\ embeddings_available \in (IF enable_cache THEN BOOLEAN ELSE {FALSE})
    /\ now = 0
    /\ lastCache = NoCacheOp

\* chat(prompt, model, use_conversation, use_cache, use_tools, max_retries),
\* steps 1 to 6, up to the first adapter of _execute_with_fallback.  An
\* empty model stands for None.  use_tools only selects params.tools, which
\* no step of the orchestrator reads again, and is left out.
ChatStart ==
    \E prompt \in Prompts, model \in {""}, use_conversation \in BOOLEAN,
       use_cache \in BOOLEAN, max_retries \in 0..MaxRetries,
       embedded \in EncodeOutcomes :
        LET lookup == use_cache /\ enable_cache
            r0 == [NoRequest EXCEPT !.prompt = prompt,
                                    !.history0 = history,
                                    !.use_conversation = use_conversation,
                                    !.use_cache = use_cache,
                                    !.max_retries = max_retries]
        IN
        /\ Quiet
        /\ nchats < MaxChats
        /\ nchats' = nchats + 1
        /\ \E g \in {IF lookup THEN GetCall(prompt, embedded)
                     ELSE [cache |-> cache, result |-> {}, last |-> lastCache]} :
            /\ WithinHits(g.cache)
            /\ cache' = g.cache
            /\ lastCache' = g.last
            /\ IF g.result # {} /\ g.result # {""}
               THEN \* 1. `if cached:` return the cached response
                    /\ req' = [r0 EXCEPT
                                 !.pc = "done", !.model = "cached",
                                 !.response = {AIResponse(CHOOSE c \in g.result : TRUE,
                                                          "cached", "cache", 0,
                                                          TRUE, FALSE)}]
                    /\ exec' = NoExec
                    /\ UNCHANGED <<history, total_tokens, lastConv>>
               ELSE LET \* 2. conversation context
                        conv1 == append_prompt(CurConv, max_messages,
                                               use_conversation, prompt)
                        \* 3. smart routing
                        model1 == IF model = "" THEN smart_route_model(PromptText(prompt))
                                  ELSE model
                        r1 == [r0 EXCEPT
                                 !.model = model1,
                                 !.aliased = use_conversation,
                                 !.messages = IF use_conversation THEN <<>>
                                              ELSE <<Message("user", prompt, NoTokens)>>]
                        \* 4. budget
                        estimated_tokens == WordCount(prompt) * 2
                    IN  /\ history' = conv1.history
                        /\ total_tokens' = conv1.total_tokens
                        /\ lastConv' = IF use_conversation
                                       THEN [op |-> "add_message", prev |-> history]
                                       ELSE lastConv
                        /\ \E r2 \in {budget_gate(r1, budget, estimated_tokens)} :
                               IF r2.pc = "failed"
                               THEN /\ req' = r2
                                    /\ exec' = NoExec
                               ELSE \* 6. _execute_with_fallback
                                    /\ req' = begin_execute(r2, providers, 1)
                                    /\ exec' = NewExec(providers, provider_stats)
        /\ UNCHANGED <<providers, provider_priority, provider_stats, enable_cache,
                       enable_tools, registered, budget, request_history, max_messages,
                       max_entries, embeddings_available, now>>

\* the top of the outer loop: provider.is_available(), then the first
\* iteration of `for attempt in range(max_retries)`, which counts the
\* request and calls provider.chat
Probe ==
    \E avail \in BOOLEAN :
        /\ req.pc = "probe"
        /\ exec' = [exec EXCEPT
                       !.probed = @ \cup {req.idx},
                       !.available = IF avail THEN @ \cup {req.idx} ELSE @]
        /\ IF skip_provider(avail)
           THEN /\ req' = next_provider(req, providers)
                /\ UNCHANGED provider_stats
           ELSE /\ IF req.max_retries <= 0
                   THEN /\ req' = next_provider(req, providers)
                        /\ UNCHANGED provider_stats
                   ELSE /\ req' = [req EXCEPT !.pc = "await", !.attempt = 0]
                        /\ provider_stats' =
                               Bump(provider_stats, providers[req.idx], "requests")
        /\ UNCHANGED <<providers, provider_priority, enable_cache, enable_tools, registered,
                       budget, request_history, nchats, convVars, cacheVars>>

\* provider.chat raises: the except branch, then the next attempt or the
\* next adapter
BackendFails ==
    /\ req.pc = "await"
    /\ exec' = Called({})
    /\ LET name == providers[req.idx]
           failed == record_failure(provider_stats, name)
       IN  IF req.attempt < req.max_retries - 1
           THEN /\ req' = [req EXCEPT !.attempt = @ + 1]
                /\ provider_stats' = Bump(failed, name, "requests")
           ELSE /\ req' = next_provider(req, providers)
                /\ provider_stats' = failed
    /\ UNCHANGED <<providers, provider_priority, enable_cache, enable_tools, registered,
                   budget, request_history, nchats, convVars, cacheVars>>

\* provider.chat returns: _execute_with_fallback returns its response, and
\* chat goes on to step 7 (tool calls) or steps 8 to 11
BackendSucceeds ==
    \E reply \in Replies, embedded \in EncodeOutcomes :
        LET name == providers[req.idx]
            response == AIResponse(reply.content, req.model, name,
                                   reply.tokens_used, FALSE, reply.tool_calls)
            store == req.use_cache /\ enable_cache /\ ~response.cached
        IN
        /\ req.pc = "await"
        /\ exec' = Called({response})
        /\ provider_stats' = Bump(provider_stats, name, "successes")
        /\ IF resolve_tool_calls(req, response, enable_tools)
           THEN \* 7. await self._handle_tool_calls(response.tool_calls)
                /\ req' = [req EXCEPT !.pc = "tools", !.response = {response},
                                    !.spent = @ + response.tokens_used]
                /\ UNCHANGED <<history, total_tokens, lastConv, cache, lastCache,
                               budget, request_history>>
           ELSE \* 8. conversation, 9. cache, 10. usage, 11. analytics
                /\ req' = [req EXCEPT !.pc = "done", !.response = {response},
                                    !.spent = @ + response.tokens_used]
                /\ \E conv1 \in {IF req.use_conversation
                                 THEN add_message(CurConv, max_messages, "assistant",
                                                  response.content,
                                                  {response.tokens_used})
                                 ELSE CurConv} :
                       /\ history' = conv1.history
                       /\ total_tokens' = conv1.total_tokens
                /\ lastConv' = IF req.use_conversation
                               THEN [op |-> "add_message", prev |-> history]
                               ELSE lastConv
                /\ \E c \in {IF store
                             THEN PutCall(req.prompt, response.content, embedded)
                             ELSE [cache |-> cache, last |-> lastCache]} :
                       /\ Len(c.cache) <= MaxCacheLen
                       /\ cache' = c.cache
                       /\ lastCache' = c.last
                /\ budget' = record_usage(budget, response.tokens_used)
                /\ request_history' =
                       Append(request_history,
                              [prompt |-> req.prompt, model |-> req.model,
                               provider |-> response.provider,
                               tokens |-> response.tokens_used,
                               cached |-> response.cached])
    /\ UNCHANGED <<providers, provider_priority, enable_cache, enable_tools, registered, nchats,
                   max_messages, max_entries, embeddings_available, now>>

\* tools.py is not among the sources: the tools either return their results
\* or raise.  On results chat appends the assistant message and the tool
\* result to the conversation, takes the history as its messages and calls
\* _execute_with_fallback once more.
ToolsReturn ==
    \E tools_ok \in BOOLEAN :
        /\ req.pc = "tools"
        /\ IF ~tools_ok
           THEN /\ req' = Raise(req, "ToolExecutionError")
                /\ UNCHANGED <<history, total_tokens, lastConv, exec>>
           ELSE LET response == CHOOSE x \in req.response : TRUE
                    conv1 == add_message(CurConv, max_messages, "assistant",
                                         response.content, NoTokens)
                    conv2 == add_message(conv1, max_messages, "system",
                                         "Tool result", NoTokens)
                IN  /\ history' = conv2.history
                    /\ total_tokens' = conv2.total_tokens
                    /\ lastConv' = [op |-> "add_message", prev |-> conv1.history]
                    /\ req' = begin_execute([req EXCEPT !.aliased = TRUE],
                                            providers, req.round + 1)
                    /\ exec' = NewExec(providers, provider_stats)
        /\ UNCHANGED <<providers, provider_priority, provider_stats, enable_cache,
                       enable_tools, registered, budget, request_history, nchats, max_messages,
                       cacheVars>>

Next == Register \/ ChatStart \/ Probe \/ BackendFails \/ BackendSucceeds
        \/ ToolsReturn

Spec == OrchInit /\ [][Next]_vars


-----------------------------------------------------------------------------
(* Claims about _execute_with_fallback and chat *)

\* the _execute_with_fallback call recorded in exec has returned a response
ExecuteReturned ==
    /\ req.pc \in {"done", "tools"}
    /\ exec.calls # <<>>

\* it has ended without any adapter having succeeded
ExecuteFailed ==
    /\ req.pc = "failed"
    /\ req.round >= 1
    /\ \A j \in 1..Len(exec.calls) : ~exec.calls[j].ok

FailedCalls(idx) ==
    Cardinality({j \in 1..Len(exec.calls) :
                     exec.calls[j].idx = idx /\ ~exec.calls[j].ok})

\* C1: the backend calls of one _execute_with_fallback visit the adapter
\* list in ascending priority order, skipping no adapter that is available
\* and has retries left; they are made only on adapters whose availability
\* probe answered true; no call follows a successful one, and the response
\* returned is that of the successful call.
C1_FailoverOrder ==
    LET calls == exec.calls
    IN  /\ \A j \in 1..Len(calls) : calls[j].idx \in exec.available
        /\ \A j, k \in 1..Len(calls) :
               j < k => /\ calls[j].idx <= calls[k].idx
                        /\ calls[j].priority <= calls[k].priority
        /\ \A j \in 1..Len(calls), i \in 1..exec.nproviders :
               i < calls[j].idx =>
                   \/ i \in exec.probed \ exec.available
                   \/ FailedCalls(i) = req.max_retries
        /\ \A j \in 1..Len(calls) : calls[j].ok => j = Len(calls)
        /\ ExecuteReturned =>
               /\ calls[Len(calls)].ok
               /\ req.response = calls[Len(calls)].response
        /\ req.pc = "await" => \A j \in 1..Len(calls) : ~calls[j].ok

\* a call that returned the response of the third adapter of the list after
\* the first was unavailable and the second had used up two attempts
C1_Witness ==
    /\ ExecuteReturned
    /\ req.max_retries = 2
    /\ Len(exec.calls) = 3
    /\ exec.calls[3].idx = 3
    /\ exec.probed \ exec.available = {1}
    /\ exec.calls[1].priority < exec.calls[3].priority

Delta(name, field) ==
    provider_stats[name][field] - exec.stats0[name][field]

CalledNames == {exec.calls[j].name : j \in 1..Len(exec.calls)}

\* C2: when the adapters tried before the successful one all failed and the
\* successful one succeeded on its first attempt, every failing adapter's
\* failures and requests have grown by max_retries, the successful one's
\* successes and requests by 1, and no other adapter's counters changed.
C2_CountersAfterFailover ==
    LET calls   == exec.calls
        winner  == calls[Len(calls)].name
        m       == req.max_retries
    IN  (/\ ExecuteReturned
         /\ m >= 1
         /\ Cardinality({j \in 1..Len(calls) :
                             calls[j].idx = calls[Len(calls)].idx}) = 1)
        => /\ \A n \in CalledNames \ {winner} :
                  /\ Delta(n, "failures") = m
                  /\ Delta(n, "requests") = m
                  /\ Delta(n, "successes") = 0
           /\ Delta(winner, "successes") = 1
           /\ Delta(winner, "requests") = 1
           /\ Delta(winner, "failures") = 0
           /\ \A n \in DOMAIN exec.stats0 \ CalledNames :
                  provider_stats[n] = exec.stats0[n]

\* C3 as stated: an _execute_with_fallback that ends without a success
\* fails with AllProvidersFailed, also on an empty adapter list.
C3_OnlyAllProvidersFailed ==
    ExecuteFailed => req.error = "AllProvidersFailed"

\* C3 amended: it fails with AllProvidersFailed when the adapter list is not
\* empty (every adapter unavailable or out of retries, max_retries = 0
\* included) and with ValueError when the list is empty; no other error
\* comes out of it.
C3_AllProvidersFailedOrValueError ==
    ExecuteFailed =>
        /\ exec.nproviders = 0 => req.error = "ValueError"
        /\ exec.nproviders > 0 =>
               /\ req.error = "AllProvidersFailed"
               /\ exec.probed = 1..exec.nproviders
               /\ \A i \in exec.available :
                      FailedCalls(i) = (IF req.max_retries > 0
                                        THEN req.max_retries ELSE 0)

\* all adapters tried in vain: one unavailable, one out of retries
C3_Witness ==
    /\ ExecuteFailed
    /\ req.error = "AllProvidersFailed"
    /\ exec.nproviders >= 2
    /\ exec.probed \ exec.available # {}
    /\ Len(exec.calls) >= 2

\* a step that is a call of chat
ChatStartStep == nchats' = nchats + 1

\* C4: when check_budget fails, chat raises BudgetExceeded at once: no
\* adapter is probed or called, no counter and no usage changes, nothing is
\* stored in the cache and no analytics record is appended.
C4_BudgetStopsBeforeSpend ==
    [][(/\ ChatStartStep
        /\ req'.pc # "done"
        /\ ~check_budget(budget, WordCount(req'.prompt) * 2))
       => /\ req'.pc = "failed"
          /\ req'.error = "BudgetExceeded"
          /\ exec'.probed = {}
          /\ exec'.calls = <<>>
          /\ provider_stats' = provider_stats
          /\ budget' = budget
          /\ request_history' = request_history
          /\ Len(cache') <= Len(cache)
          /\ lastCache' # lastCache => lastCache'.op = "get"]_vars

\* a chat stopped by the budget although adapters were registered and the
\* cache was on
C4_Witness ==
    /\ req.pc = "failed"
    /\ req.error = "BudgetExceeded"
    /\ providers # <<>>
    /\ req.use_cache
    /\ enable_cache
    /\ embeddings_available
    /\ request_history = <<>>

-----------------------------------------------------------------------------
(* _smart_route_model on its own: the prompt is any text of at most        *)
(* MaxChunks chunks, and the routine is applied to it once.                *)

RECURSIVE Texts(_)
Texts(n) ==
    IF n = 0 THEN {<<>>}
    ELSE Texts(n - 1) \cup {t \o c : t \in Texts(n - 1), c \in Chunks}

RouteInit ==
    /\ ConvInit /\ max_messages = 0
    /\ CacheIdle
    /\ providers = <<>>
    /\ provider_priority = EmptyFunction
    /\ provider_stats = EmptyFunction
    /\ enable_cache = FALSE
    /\ enable_tools = FALSE
    /\ budget = [used |-> 0, limit |-> 0]
    /\ request_history = <<>>
    /\ exec = NoExec
    /\ nchats = 0
    /\ registered = <<>>
    /\ \E text \in Texts(MaxChunks) : req = [NoRequest EXCEPT !.prompt = text]

\* model = self._smart_route_model(prompt)
Route ==
    /\ req.pc = "idle"
    /\ req' = [req EXCEPT !.pc = "routed",
                          !.model = smart_route_model(req.prompt)]
    /\ UNCHANGED <<convVars, cacheVars, providers, provider_priority,
                   provider_stats, enable_cache, enable_tools, registered, budget,
                   request_history, exec, nchats>>

SpecRoute == RouteInit /\ [][Route]_vars

\* keyword occurs in text at some position, letter case disregarded
OccursAnyCase(text, keyword) ==
    \E i \in 1..(Len(text) - Len(keyword) + 1) :
        \A j \in 1..Len(keyword) :
            LowerChar(text[i + j - 1]) = LowerChar(keyword[j])

HoldsReasoningKeyword(text) ==
    \E k \in 1..Len(reasoning_keywords) : OccursAnyCase(text, reasoning_keywords[k])

HoldsSimpleKeyword(text) ==
    \E k \in 1..Len(simple_keywords) : OccursAnyCase(text, simple_keywords[k])

\* C11: a prompt that holds a reasoning keyword in any letter case is routed
\* to the reasoning model, also when it holds a simple keyword; every other
\* prompt is routed to the chat model.
C11_RouteByKeyword ==
    req.pc = "routed" =>
        req.model = (IF HoldsReasoningKeyword(req.prompt)
                     THEN "deepseek-reasoner" ELSE "deepseek-chat")

\* a routed prompt with upper-case letters that holds a simple keyword
\* before a reasoning keyword
C11_Witness ==
    /\ req.pc = "routed"
    /\ req.model = "deepseek-reasoner"
    /\ HoldsSimpleKeyword(req.prompt)
    /\ lower(req.prompt) # req.prompt
    /\ ~any_keyword_in(reasoning_keywords, req.prompt)

-----------------------------------------------------------------------------
(* Claims about the tool round of chat *)

\* the response of the _execute_with_fallback call that has just returned
LastResponse == exec.calls[Len(exec.calls)].response

\* C12: chat calls _execute_with_fallback at most twice and resolves tool
\* calls only after the first call; a second response that carries tool
\* calls again is committed and returned as it is.
C12_ToolRoundAtMostOnce ==
    [][/\ req'.round <= 2
       /\ (req'.pc = "tools" /\ req.pc # "tools") => req.round = 1
       /\ (req.pc = "await" /\ req.round = 2 /\ req'.pc \notin {"await", "probe", "failed"})
             => /\ req'.pc = "done"
                /\ req'.round = 2
                /\ req'.response = exec'.calls[Len(exec'.calls)].response
                /\ Len(request_history') = Len(request_history) + 1
                /\ req.use_conversation =>
                       /\ history' # <<>>
                       /\ history'[Len(history')].role = "assistant"
                       /\ {history'[Len(history')].content} =
                              {x.content : x \in req'.response}]_vars

\* a chat whose second response carried tool calls again has returned it
C12_Witness ==
    /\ req.pc = "done"
    /\ req.round = 2
    /\ req.use_conversation
    /\ \E x \in req.response : x.tool_calls
    /\ req.response = LastResponse

-----------------------------------------------------------------------------
(* core.py: chat_stream.  The caller iterates the generator to its end;    *)
(* req.delivered is the sequence of fragments the caller has received.     *)

\* bound: fragments one provider.stream yields before it ends or raises
MaxFragments == 2

Fragments == {"x", "y"}

\* "".join(full_response)
RECURSIVE join(_)
join(fragments) ==
    IF fragments = <<>> THEN "" ELSE Head(fragments) \o join(Tail(fragments))

\* a generator that collects the fragments and yields nothing before the
\* stream has ended
deliver_at_end(r, chunk) ==
    [r EXCEPT !.full_response = Append(@, chunk)]

\* full_response.append(chunk); yield chunk
deliver(r, chunk) ==
    [r EXCEPT !.full_response = Append(@, chunk),
              !.delivered = Append(@, chunk)]

\* `continue` in the adapter loop of chat_stream (after an unavailable
\* adapter, or in the except branch), or the end of the loop and
\* `raise AllProvidersFailedException`
stream_next_provider(r, provs) ==
    IF r.idx + 1 > Len(provs)
    THEN Raise(r, "AllProvidersFailed")
    ELSE [r EXCEPT !.pc = "sprobe", !.idx = @ + 1]

\* `for provider in self.providers:` on entry: an empty list falls through
\* to the raise after the loop
begin_stream(r, provs) ==
    IF provs = <<>>
    THEN Raise(r, "AllProvidersFailed")
    ELSE [r EXCEPT !.pc = "sprobe", !.idx = 1]

\* chat_stream up to the adapter loop
StreamStart ==
    \E prompt \in Prompts, use_conversation \in BOOLEAN :
        LET conv1 == append_prompt(CurConv, max_messages, use_conversation, prompt)
            r1 == [NoRequest EXCEPT
                     !.prompt = prompt,
                     !.history0 = history,
                     !.use_conversation = use_conversation,
                     !.model = smart_route_model(PromptText(prompt)),
                     !.aliased = use_conversation,
                     !.messages = IF use_conversation THEN <<>>
                                  ELSE <<Message("user", prompt, NoTokens)>>]
        IN  /\ Quiet
            /\ nchats < MaxChats
            /\ nchats' = nchats + 1
            /\ history' = conv1.history
            /\ total_tokens' = conv1.total_tokens
            /\ lastConv' = IF use_conversation
                           THEN [op |-> "add_message", prev |-> history]
                           ELSE lastConv
            /\ req' = begin_stream(r1, providers)
            /\ exec' = NewExec(providers, provider_stats)
            /\ UNCHANGED <<providers, provider_priority, provider_stats,
                           enable_cache, enable_tools, registered, budget, request_history,
                           max_messages, cacheVars>>

\* a plausible slip: full_response is created once, before the adapter loop,
\* so that it also keeps the fragments of the adapters that raised
open_stream_keeps_fragments(r) == [r EXCEPT !.pc = "stream"]

\* `full_response = []` at the top of the try block, before provider.stream
open_stream(r) == [r EXCEPT !.pc = "stream", !.full_response = <<>>]

\* `if not provider.is_available(): continue`, else provider.stream(...)
\* is started with an empty full_response
StreamProbe ==
    \E avail \in BOOLEAN :
        /\ req.pc = "sprobe"
        /\ IF skip_provider(avail)
           THEN /\ req' = stream_next_provider(req, providers)
                /\ exec' = [exec EXCEPT !.probed = @ \cup {req.idx}]
           ELSE /\ req' = open_stream(req)
                /\ exec' = [exec EXCEPT
                               !.probed = @ \cup {req.idx},
                               !.available = @ \cup {req.idx},
                               !.streams = Append(@,
                                   [idx |-> req.idx,
                                    name |-> providers[req.idx],
                                    priority |-> provider_priority[providers[req.idx]],
                                    messages |-> Messages(req, history),
                                    fragments |-> <<>>,
                                    start |-> Len(req.delivered),
                                    state |-> "open"])]
        /\ UNCHANGED <<providers, provider_priority, provider_stats, enable_cache,
                       enable_tools, registered, budget, request_history, nchats, convVars,
                       cacheVars>>

\* the open stream has one more record: what the adapter has done
Streamed(chunks, state) ==
    [exec EXCEPT !.streams[Len(exec.streams)] =
                     [@ EXCEPT !.fragments = @ \o chunks, !.state = state]]

\* the adapter yields a fragment, and chat_stream yields it to its caller
StreamYield ==
    \E chunk \in Fragments :
        /\ req.pc = "stream"
        /\ Len(req.full_response) < MaxFragments
        /\ req' = deliver(req, chunk)
        /\ exec' = Streamed(<<chunk>>, "open")
        /\ UNCHANGED <<providers, provider_priority, provider_stats, enable_cache,
                       enable_tools, registered, budget, request_history, nchats, convVars,
                       cacheVars>>

\* the adapter's stream raises: the except branch
StreamFails ==
    /\ req.pc = "stream"
    /\ req' = stream_next_provider(req, providers)
    /\ exec' = Streamed(<<>>, "failed")
    /\ UNCHANGED <<providers, provider_priority, provider_stats, enable_cache,
                   enable_tools, registered, budget, request_history, nchats, convVars,
                   cacheVars>>

\* the adapter's stream ends: the conversation gets the full response and
\* the generator returns
StreamEnds ==
    /\ req.pc = "stream"
    /\ req' = [req EXCEPT !.pc = "done"]
    /\ exec' = Streamed(<<>>, "done")
    /\ \E conv1 \in {IF req.use_conversation
                     THEN add_message(CurConv, max_messages, "assistant",
                                      join(req.full_response), NoTokens)
                     ELSE CurConv} :
           /\ history' = conv1.history
           /\ total_tokens' = conv1.total_tokens
    /\ lastConv' = IF req.use_conversation
                   THEN [op |-> "add_message", prev |-> history]
                   ELSE lastConv
    /\ UNCHANGED <<providers, provider_priority, provider_stats, enable_cache,
                   enable_tools, registered, budget, request_history, nchats, max_messages,
                   cacheVars>>

StreamNext == Register \/ StreamStart \/ StreamProbe \/ StreamYield
              \/ StreamFails \/ StreamEnds

\* chat_stream uses neither the cache nor the tools
StreamInit == OrchInit /\ ~enable_cache /\ ~enable_tools

SpecStream == StreamInit /\ [][StreamNext]_vars

-----------------------------------------------------------------------------
(* Claims about chat_stream *)

\* C13: the fragments of every stream, also of one that raised, reach the
\* caller in order as they are yielded, and all of them before the next
\* stream is started; the next stream is that of the next available adapter
\* in priority order, gets the same messages, and its fragments follow.
C13_FragmentsDeliveredBeforeSwitch ==
    LET streams == exec.streams
        delivered == req.delivered
    IN  /\ \A j \in 1..Len(streams) :
               LET st == streams[j]
               IN  /\ Len(delivered) >= st.start + Len(st.fragments)
                   /\ SubSeq(delivered, st.start + 1,
                             st.start + Len(st.fragments)) = st.fragments
        /\ \A j \in 1..(Len(streams) - 1) :
               LET st == streams[j]
                   nx == streams[j + 1]
               IN  /\ st.state = "failed"
                   /\ nx.start = st.start + Len(st.fragments)
                   /\ nx.messages = st.messages
                   /\ st.idx < nx.idx
                   /\ st.priority <= nx.priority
                   /\ \A i \in (st.idx + 1)..(nx.idx - 1) :
                          i \in exec.probed \ exec.available
        /\ streams # <<>> =>
               /\ streams[1].start = 0
               /\ Len(delivered) = streams[Len(streams)].start
                                     + Len(streams[Len(streams)].fragments)

\* an adapter raised after two fragments, an unavailable adapter was passed
\* over and a later one streamed to its end
C13_Witness ==
    /\ req.pc = "done"
    /\ Len(exec.streams) = 2
    /\ exec.streams[1].fragments = <<"x", "y">>
    /\ exec.streams[2].fragments = <<"y">>
    /\ exec.streams[2].idx = 3
    /\ req.delivered = <<"x", "y", "y">>
    /\ req.use_conversation

\* the chat_stream call has ended: the generator returned or raised
StreamEnded == req.pc \in {"done", "failed"} /\ nchats > 0

StreamsOf(i) == {j \in 1..Len(exec.streams) : exec.streams[j].idx = i}

\* C14: chat_stream raises AllProvidersFailed exactly when no stream ran to
\* its end, and then every adapter of the list has been probed and every
\* available one streamed once, in list order; no adapter is streamed twice
\* in one call; an empty list raises AllProvidersFailed too.
C14_AllProvidersFailedIffNoneCompleted ==
    LET streams == exec.streams
        completed == \E j \in 1..Len(streams) : streams[j].state = "done"
    IN  /\ StreamEnded =>
               /\ (req.pc = "failed") <=> ~completed
               /\ req.pc = "failed" =>
                      /\ req.error = "AllProvidersFailed"
                      /\ exec.probed = 1..exec.nproviders
                      /\ \A i \in 1..exec.nproviders :
                             Cardinality(StreamsOf(i)) =
                                 (IF i \in exec.available THEN 1 ELSE 0)
        /\ \A j, k \in 1..Len(streams) :
               j < k => /\ streams[j].idx < streams[k].idx
                        /\ streams[j].name # streams[k].name

-----------------------------------------------------------------------------
(* chat and chat_stream side by side on one orchestrator whose conversation *)
(* may hold system prompts before a request.  The cache is off.             *)

\* AIOrchestrator.add_system_prompt, called between requests
OrchAddSystemPrompt ==
    /\ Quiet
    /\ nchats = 0
    /\ Len(history) < max_messages
    /\ SetConv(add_system_prompt(CurConv, "s"), "add_system_prompt")

AllInit == OrchInit /\ ~enable_cache

AllNext == Next \/ StreamNext \/ OrchAddSystemPrompt

SpecAll == AllInit /\ [][AllNext]_vars

\* the history a request found, with its prompt appended
WithPrompt(r) ==
    add_message(Conv(r.history0, 0), max_messages, "user", r.prompt, NoTokens)

\* the same after a tool round: the first response and the tool result
WithToolRound(r) ==
    LET first == CHOOSE x \in r.response : TRUE
    IN  add_message(add_message(WithPrompt(r), max_messages, "assistant",
                                first.content, NoTokens),
                    max_messages, "system", "Tool result", NoTokens)

\* chat or chat_stream with use_conversation has raised one of the two errors
FailedInConversation ==
    /\ req.pc = "failed"
    /\ req.use_conversation
    /\ req.error \in {"BudgetExceeded", "AllProvidersFailed"}

\* C15 as stated: after such a failure the history is the history found
\* with the prompt appended, and nothing else.
C15_PromptKeptNothingAdded ==
    FailedInConversation => history = WithPrompt(req).history

\* C15 amended: the same, except that a chat that fails in its second
\* _execute_with_fallback has also appended the messages of the tool round.
C15_PromptKeptToolRoundToo ==
    FailedInConversation =>
        history = (IF req.round = 2 THEN WithToolRound(req)
                   ELSE WithPrompt(req)).history

\* a chat_stream on a full window failed after a stream had raised: the
\* oldest message was evicted for the prompt
C15_Witness ==
    /\ FailedInConversation
    /\ exec.streams # <<>>
    /\ Len(req.history0) = max_messages
    /\ history[Len(history)] = Message("user", req.prompt, NoTokens)

-----------------------------------------------------------------------------
(* The orchestrator after one request has been served: deepseek was         *)
(* registered with priority 1 and chat(prompt, use_cache=True) returned a   *)
(* reply without tool calls from it ("r1" with 1 token, or the empty text   *)
(* with none) and stored it in the cache.  The requests counted by nchats   *)
(* are those that follow.                                                   *)

WarmInit ==
    \E prompt \in Prompts, use_conversation \in BOOLEAN,
       reply \in {x \in Replies : ~x.tool_calls} :
        LET model == smart_route_model(PromptText(prompt))
            conv1 == append_prompt(Conv(<<>>, 0), MaxMessages, use_conversation, prompt)
            conv2 == IF use_conversation
                     THEN add_message(conv1, MaxMessages, "assistant",
                                      reply.content, {reply.tokens_used})
                     ELSE conv1
        IN  /\ check_budget([used |-> 0, limit |-> HourlyLimit], WordCount(prompt) * 2)
            /\ providers = <<"deepseek">>
            /\ provider_priority = [n \in {"deepseek"} |-> 1]
            /\ provider_stats =
                   [n \in {"deepseek"} |->
                       [requests |-> 1, successes |-> 1, failures |-> 0]]
            /\ enable_cache = TRUE
            /\ enable_tools \in BOOLEAN
            /\ budget = record_usage([used |-> 0, limit |-> HourlyLimit],
                                     reply.tokens_used)
            /\ request_history =
                   <<[prompt |-> prompt, model |-> model, provider |-> "deepseek",
                      tokens |-> reply.tokens_used, cached |-> FALSE]>>
            /\ req = NoRequest
            /\ exec = NoExec
            /\ nchats = 0
            /\ registered = <<"deepseek">>
            /\ history = conv2.history
            /\ total_tokens = conv2.total_tokens
            /\ max_messages = MaxMessages
            /\ lastConv = [op |-> "init", prev |-> <<>>]
            /\ cache = cache_response(<<>>, TRUE, TRUE, 0, prompt, reply.content)
            /\ max_entries = MaxEntries
            /\ embeddings_available = TRUE
            /\ now = 0
            /\ lastCache = NoCacheOp

SpecWarm == WarmInit /\ [][Next]_vars

-----------------------------------------------------------------------------
(* Claims about the analytics history *)

\* a step in which a chat call returns a response to its caller
ChatReturnsStep ==
    /\ req'.pc = "done"
    /\ ChatStartStep \/ req.pc = "await"

\* C16: a chat call that returns a response, from a backend or from the
\* cache, appends one record {prompt, model, provider, tokens, cached} for
\* it to request_history; no other step changes request_history.
C16_OneRecordPerReturnedChat ==
    [][IF ChatReturnsStep
       THEN \E x \in req'.response :
                request_history' =
                    Append(request_history,
                           [prompt |-> req'.prompt, model |-> x.model,
                            provider |-> x.provider, tokens |-> x.tokens_used,
                            cached |-> x.cached])
       ELSE request_history' = request_history]_vars

-----------------------------------------------------------------------------
(* register_provider on its own *)

SpecRegistry == OrchInit /\ [][Register]_vars

\* the position of the first x in s
FirstIndex(s, x) == CHOOSE i \in 1..Len(s) : s[i] = x /\ \A k \in 1..(i - 1) : s[k] # x

SortedByPriority(s, prio) ==
    \A i, j \in 1..Len(s) : i < j => prio[s[i]] <= prio[s[j]]

Listed == {providers[i] : i \in 1..Len(providers)}

\* the entries of s whose priority is p, in their order in s
RECURSIVE OfPriority(_, _, _)
OfPriority(s, prio, p) ==
    IF s = <<>> THEN <<>>
    ELSE IF prio[Head(s)] = p
         THEN <<Head(s)>> \o OfPriority(Tail(s), prio, p)
         ELSE OfPriority(Tail(s), prio, p)

\* C17 as stated: the adapter list is sorted ascending by current priority,
\* and of two adapters of equal priority the one registered first comes
\* first in the list.
C17_SortedInRegistrationOrder ==
    /\ SortedByPriority(providers, provider_priority)
    /\ \A a, b \in Listed :
           (/\ a # b
            /\ provider_priority[a] = provider_priority[b]
            /\ FirstIndex(registered, a) < FirstIndex(registered, b))
           => FirstIndex(providers, a) < FirstIndex(providers, b)

\* C17 amended: after register_provider the list is sorted ascending by
\* current priority; it is the list before the call with one entry more,
\* and entries of equal priority are in the order they had in the list
\* before the call, the new entry last among them.
C17_SortedAndStable ==
    [][registered' # registered =>
          LET name == registered'[Len(registered')]
              appended == Append(providers, name)
          IN  /\ SortedByPriority(providers', provider_priority')
              /\ Len(providers') = Len(providers) + 1
              /\ \A p \in Priorities :
                     OfPriority(providers', provider_priority', p)
                         = OfPriority(appended, provider_priority', p)]_vars

\* openai (2), deepseek (1), then deepseek again with priority 2
C17_Witness ==
    /\ registered = <<"openai", "deepseek", "deepseek">>
    /\ providers = <<"deepseek", "openai", "deepseek">>
    /\ provider_priority["deepseek"] = 2
    /\ provider_priority["openai"] = 2

\* C18: after register_provider for an adapter that was registered before,
\* the list holds one entry for it, placed by its latest priority, and its
\* counters are those it had before the call.
C18_ReRegisterKeepsOneEntry ==
    [][(registered' # registered
          /\ registered'[Len(registered')] \in DOMAIN provider_stats) =>
          LET name == registered'[Len(registered')]
          IN  /\ Cardinality({i \in 1..Len(providers') : providers'[i] = name}) = 1
              /\ SortedByPriority(providers', provider_priority')
              /\ provider_stats'[name] = provider_stats[name]]_vars

-----------------------------------------------------------------------------
(* Claims about the order of the conversation window *)

Min(a, b) == IF a <= b THEN a ELSE b

\* the last k elements of s
LastK(s, k) == SubSeq(s, Len(s) - k + 1, Len(s))

\* C19: add_message leaves the last min(max_messages, n + 1) elements of the
\* previous history followed by the new message, in their order; so it
\* removes from the front only, a system prompt at position 0 first.
C19_EvictsFromFrontOnly ==
    [][lastConv'.op = "add_message" =>
          \E role \in Roles, content \in Contents, tokens \in TokenValues :
              history' = LastK(Append(history, Message(role, content, tokens)),
                               Min(max_messages, Len(history) + 1))]_vars

\* an add_message on a full window that began with a system prompt: the
\* system prompt is gone and the rest has moved up
C19_Witness ==
    /\ lastConv.op = "add_message"
    /\ max_messages = 2
    /\ Len(lastConv.prev) = 2
    /\ lastConv.prev[1].role = "system"
    /\ Len(history) = 2
    /\ history[1] = lastConv.prev[2]
    /\ history[2].role = "user"

-----------------------------------------------------------------------------
(* Claims about the per-adapter counters *)

Balanced(st) == st.requests = st.successes + st.failures

\* the adapter whose chat is in flight in request r, if any
InFlight(r, provs) == IF r.pc = "await" THEN {provs[r.idx]} ELSE {}

\* C20: requests = successes + failures for every adapter while no backend
\* call is in flight (one more request for the adapter being called); no
\* counter ever decreases; the end of a backend call adds 1 to exactly one
\* of successes and failures of its adapter, and each call started adds 1
\* to its requests.
C20_CountersBalanced ==
    [][/\ \A n \in DOMAIN provider_stats' :
              IF n \in InFlight(req', providers')
              THEN provider_stats'[n].requests =
                       provider_stats'[n].successes + provider_stats'[n].failures + 1
              ELSE Balanced(provider_stats'[n])
       /\ \A n \in DOMAIN provider_stats :
              /\ n \in DOMAIN provider_stats'
              /\ \A f \in {"requests", "successes", "failures"} :
                     provider_stats'[n][f] >= provider_stats[n][f]
       /\ req.pc = "await" =>
              LET n == providers[req.idx]
                  ds == provider_stats'[n].successes - provider_stats[n].successes
                  df == provider_stats'[n].failures - provider_stats[n].failures
                  dr == provider_stats'[n].requests - provider_stats[n].requests
              IN  /\ <<ds, df>> \in {<<1, 0>>, <<0, 1>>}
                  /\ dr = (IF req'.pc = "await" THEN 1 ELSE 0)
                  /\ \A m \in DOMAIN provider_stats \ {n} :
                         provider_stats'[m] = provider_stats[m]]_vars

\* a chat has returned after one adapter used up two attempts and the next
\* one answered
C20_Witness ==
    /\ req.pc = "done"
    /\ DOMAIN provider_stats = {"deepseek", "openai"}
    /\ provider_stats["deepseek"].failures = 2
    /\ provider_stats["deepseek"].requests = 2
    /\ provider_stats["openai"].successes = 1

-----------------------------------------------------------------------------
(* Claims about the bounds of _execute_with_fallback *)

CallsOf(name) == {j \in 1..Len(exec.calls) : exec.calls[j].name = name}

\* C21: one _execute_with_fallback makes at most max_retries backend calls
\* on each adapter, at most (list entries x max_retries) in all, and never
\* calls an adapter again once it has moved on to another.
C21_AttemptsBounded ==
    LET calls == exec.calls
        m == IF req.max_retries > 0 THEN req.max_retries ELSE 0
    IN  /\ \A n \in CalledNames : Cardinality(CallsOf(n)) <= m
        /\ Len(calls) <= exec.nproviders * m
        /\ \A j, k, l \in 1..Len(calls) :
               (j < k /\ k < l /\ calls[j].name = calls[l].name)
                   => calls[k].name = calls[j].name

-----------------------------------------------------------------------------
(* Claims about the match of get_cached_response *)

\* the positions of s whose entry reaches the threshold for the query
Qualifying(s, query) == {i \in 1..Len(s) : Similar(query, s[i])}

\* position m of s holds an entry of maximum similarity to the query, the
\* earliest one among those of that similarity
EarliestBest(s, query, m) ==
    /\ m \in Qualifying(s, query)
    /\ \A j \in Qualifying(s, query) :
           /\ ~SimilarityGreater(Embedding(query), Embedding(s[j].query),
                                 Embedding(s[m].query))
           /\ (j < m => SimilarityGreater(Embedding(query),
                                          Embedding(s[m].query),
                                          Embedding(s[j].query)))

\* C22 as stated: a get on a cache holding an unexpired entry that reaches
\* the threshold returns the response of the earliest entry of maximum
\* similarity among the unexpired ones; a get on a cache with no entry
\* reaching the threshold is a miss and changes no hit counter.
C22_BestOfUnexpiredReturned ==
    [][GetStep =>
        LET live == SelectSeq(cache, LAMBDA e : Fresh(e, now))
        IN  IF Qualifying(live, lastCache'.query) # {}
            THEN \E m \in 1..Len(live) :
                    /\ EarliestBest(live, lastCache'.query, m)
                    /\ lastCache'.result = {live[m].response}
            ELSE /\ lastCache'.result = {}
                 /\ \A e \in Entries(cache') : Count(cache', e) <= Count(cache, e)
      ]_vars

\* C22 amended: when the query's embedding is produced, the get looks only
\* at the entries left by its pruning and eviction.  If one of them reaches
\* the threshold, the get returns the response of the earliest entry of
\* maximum similarity in the order the cleanup leaves, that entry's hit
\* counter is one more than before and every other entry left is as it was;
\* if none does, the get is a miss and every entry left is as it was.
C22_BestOfRemainingReturned ==
    [][(GetStep /\ lastCache'.embedded) =>
        LET m == lastCache'.match
            after == BeforeHit(cache', m)
        IN  /\ m \in 0..Len(cache')
            /\ \A e \in Entries(after) :
                   Fresh(e, now) /\ Count(after, e) <= Count(cache, e)
            /\ IF Qualifying(cache', lastCache'.query) # {}
               THEN /\ EarliestBest(cache', lastCache'.query, m)
                    /\ lastCache'.result = {cache'[m].response}
               ELSE /\ m = 0
                    /\ lastCache'.result = {}
      ]_vars

\* a get that matched the first of two entries of the same query
C22_Witness ==
    /\ lastCache.op = "get"
    /\ lastCache.embedded
    /\ lastCache.match = 1
    /\ Len(cache) = 2
    /\ cache[2].query = cache[1].query
    /\ cache[1].hits = 1
    /\ cache[2].hits = 0

-----------------------------------------------------------------------------
(* Claims about the message chat_stream commits *)

\* a chat_stream call with use_conversation=True has returned normally
StreamCommitted ==
    /\ req.pc = "done"
    /\ req.use_conversation
    /\ exec.streams # <<>>
    /\ exec.streams[Len(exec.streams)].state = "done"

\* C23 as stated: the assistant message committed by a chat_stream that
\* completed normally is the concatenation, in order, of every fragment the
\* caller received during the call.
C23_CommitsAllDelivered ==
    StreamCommitted =>
        /\ history # <<>>
        /\ history[Len(history)] =
               Message("assistant", join(req.delivered), NoTokens)

\* C23 amended: the assistant message committed is the concatenation, in
\* order, of the fragments of the adapter whose stream ran to its end, which
\* are the last fragments the caller received; the fragments delivered from
\* adapters that raised before are not part of it.
C23_CommitsCompletedStream ==
    StreamCommitted =>
        LET st == exec.streams[Len(exec.streams)]
        IN  /\ history # <<>>
            /\ history[Len(history)] =
                   Message("assistant", join(st.fragments), NoTokens)
            /\ Len(req.delivered) = st.start + Len(st.fragments)
            /\ SubSeq(req.delivered, st.start + 1, Len(req.delivered))
                   = st.fragments

\* the first adapter raised after "x", the second streamed "y" and "x" to
\* the end: the caller has received three fragments, the message holds two
C23_Witness ==
    /\ StreamCommitted
    /\ Len(exec.streams) = 2
    /\ exec.streams[1].fragments = <<"x">>
    /\ req.delivered = <<"x", "y", "x">>
    /\ history[Len(history)].content = "yx"

-----------------------------------------------------------------------------
(* Claims about a chat served from the cache *)

\* a step that starts a chat whose cache lookup matched an entry
CacheMatchStep ==
    /\ ChatStartStep
    /\ req'.use_cache
    /\ enable_cache
    /\ lastCache'.op = "get"
    /\ lastCache'.match # 0

\* C24: a chat with use_cache=True whose lookup matches an entry returns the
\* stored text, also when it is the empty string, with cached=True and
\* provider "cache", calls no backend, leaves the conversation, the adapter
\* counters and the budget usage as they were and adds no cache entry.
C24_CacheHitReturnsStoredText ==
    [][CacheMatchStep =>
        /\ req'.pc = "done"
        /\ \E x \in req'.response :
               /\ {x.content} = lastCache'.result
               /\ x.cached
               /\ x.provider = "cache"
        /\ exec'.calls = <<>>
        /\ history' = history
        /\ total_tokens' = total_tokens
        /\ provider_stats' = provider_stats
        /\ budget' = budget
        /\ Len(cache') <= Len(cache)
      ]_vars

-----------------------------------------------------------------------------
(* Claims about requests made with use_conversation=False *)

\* C25: a chat or chat_stream call with use_conversation=False leaves the
\* conversation as it found it, and every message list it hands to a
\* backend is the single user prompt, also on a tool round.
C25_StatelessCallLeavesWindow ==
    (nchats > 0 /\ req.pc # "idle" /\ ~req.use_conversation) =>
        LET single == <<Message("user", req.prompt, NoTokens)>>
        IN  /\ history = req.history0
            /\ total_tokens = SumTokens(req.history0)
            /\ \A j \in 1..Len(exec.calls) : exec.calls[j].messages = single
            /\ \A j \in 1..Len(exec.streams) : exec.streams[j].messages = single

-----------------------------------------------------------------------------
(* Claims about the usage recorded for a chat *)

\* a step in which a chat call that went to the backends returns
ChatCompletesStep == req.pc = "await" /\ req'.pc = "done"

\* C26: a chat that completes through the backends calls record_usage once,
\* between the cache store and the analytics append, with the sum of
\* tokens_used of all its successful backend calls (both calls of a tool
\* round); no other step of a request records usage.
C26_UsageIsSumOfCalls ==
    [][IF ChatCompletesStep
       THEN /\ budget' = record_usage(budget, req'.spent)
            /\ Len(request_history') = Len(request_history) + 1
       ELSE budget' = budget]_vars

-----------------------------------------------------------------------------
(* Claims about the budget check before a backend is used *)

\* C27: a backend adapter is invoked, by chat or by chat_stream, only for a
\* request for which check_budget has been called and has passed.
C27_BackendOnlyAfterBudgetCheck ==
    (\/ req.pc \in {"await", "stream"}
     \/ exec.calls # <<>>
     \/ exec.streams # <<>>) => req.checked

-----------------------------------------------------------------------------
(* Two chat calls with use_conversation=True as asyncio tasks on one        *)
(* orchestrator, cache and tools off.  req[i] is the request of task i and  *)
(* exec[i] its record: prepared is the history when the task finished its   *)
(* context preparation, sent the message lists it has handed to             *)
(* provider.chat, each as it was when the call was made (the adapter reads   *)
(* the list before its first await, providers.py:52).  A task runs without  *)
(* interruption up to its next `await provider.chat`: no task takes a step  *)
(* while another is between two such points.                                *)

Tasks == {1, 2}

\* every task other than i is suspended in provider.chat, or not running
Suspended(i) ==
    \A j \in Tasks \ {i} : req[j].pc \in {"idle", "await", "done", "failed"}

\* provider.chat(messages, params) is called: the adapter reads messages
Send(e, r, h) == [e EXCEPT !.sent = Append(@, Messages(r, h))]

\* the orchestrator after register_provider calls with distinct adapters,
\* with an hourly ceiling that lets both prompts through
PairInit ==
    /\ providers \in {<<"deepseek">>, <<"deepseek", "openai">>}
    /\ provider_priority = [n \in {providers[k] : k \in 1..Len(providers)} |->
                               CHOOSE k \in 1..Len(providers) : providers[k] = n]
    /\ provider_stats = [n \in {providers[k] : k \in 1..Len(providers)} |-> ZeroStats]
    /\ registered = providers
    /\ enable_cache = FALSE
    /\ enable_tools = FALSE
    /\ budget = [used |-> 0, limit |-> 2 * HourlyLimit]
    /\ request_history = <<>>
    /\ req = [i \in Tasks |-> NoRequest]
    /\ exec = [i \in Tasks |-> [prepared |-> <<>>, sent |-> <<>>]]
    /\ nchats = 0
    /\ ConvInit
    /\ max_messages = MaxMessages
    /\ CacheIdle

\* task i: chat(prompt, use_conversation=True, use_cache=False, max_retries)
\* up to the adapter loop of _execute_with_fallback
PairStart(i) ==
    \E prompt \in Prompts, max_retries \in 1..MaxRetries :
        LET conv1 == append_prompt(CurConv, max_messages, TRUE, prompt)
            r1 == [NoRequest EXCEPT
                     !.prompt = prompt,
                     !.history0 = history,
                     !.use_conversation = TRUE,
                     !.max_retries = max_retries,
                     !.model = smart_route_model(PromptText(prompt)),
                     !.aliased = TRUE]
            r2 == budget_gate(r1, budget, WordCount(prompt) * 2)
        IN  /\ req[i].pc = "idle"
            /\ Suspended(i)
            /\ nchats' = nchats + 1
            /\ history' = conv1.history
            /\ total_tokens' = conv1.total_tokens
            /\ lastConv' = [op |-> "add_message", prev |-> history]
            /\ req' = [req EXCEPT ![i] = IF r2.pc = "failed" THEN r2
                                         ELSE begin_execute(r2, providers, 1)]
            /\ exec' = [exec EXCEPT ![i] = [prepared |-> conv1.history,
                                            sent |-> <<>>]]
            /\ UNCHANGED <<providers, provider_priority, provider_stats,
                           enable_cache, enable_tools, registered, budget,
                           request_history, max_messages, cacheVars>>

\* task i: provider.is_available(), then the first provider.chat
PairProbe(i) ==
    \E avail \in BOOLEAN :
        /\ req[i].pc = "probe"
        /\ IF skip_provider(avail)
           THEN /\ req' = [req EXCEPT ![i] = next_provider(@, providers)]
                /\ UNCHANGED <<provider_stats, exec>>
           ELSE /\ req' = [req EXCEPT ![i] = [@ EXCEPT !.pc = "await",
                                                       !.attempt = 0]]
                /\ provider_stats' =
                       Bump(provider_stats, providers[req[i].idx], "requests")
                /\ exec' = [exec EXCEPT ![i] = Send(@, req[i], history)]
        /\ UNCHANGED <<providers, provider_priority, enable_cache, enable_tools,
                       registered, budget, request_history, nchats, convVars,
                       cacheVars>>

\* task i is resumed: its provider.chat raised; it retries or moves on
PairFails(i) ==
    /\ req[i].pc = "await"
    /\ Suspended(i)
    /\ LET name == providers[req[i].idx]
           failed == record_failure(provider_stats, name)
       IN  IF req[i].attempt < req[i].max_retries - 1
           THEN /\ req' = [req EXCEPT ![i] = [@ EXCEPT !.attempt = @ + 1]]
                /\ provider_stats' = Bump(failed, name, "requests")
                /\ exec' = [exec EXCEPT ![i] = Send(@, req[i], history)]
           ELSE /\ req' = [req EXCEPT ![i] = next_provider(@, providers)]
                /\ provider_stats' = failed
                /\ UNCHANGED exec
    /\ UNCHANGED <<providers, provider_priority, enable_cache, enable_tools,
                   registered, budget, request_history, nchats, convVars,
                   cacheVars>>

\* task i is resumed: its provider.chat returned; steps 8 to 11 of chat
PairSucceeds(i) ==
    \E reply \in Replies :
        LET name == providers[req[i].idx]
            response == AIResponse(reply.content, req[i].model, name,
                                   reply.tokens_used, FALSE, reply.tool_calls)
            conv1 == add_message(CurConv, max_messages, "assistant",
                                 response.content, {response.tokens_used})
        IN  /\ req[i].pc = "await"
            /\ Suspended(i)
            /\ provider_stats' = Bump(provider_stats, name, "successes")
            /\ req' = [req EXCEPT ![i] =
                          [@ EXCEPT !.pc = "done", !.response = {response},
                                    !.spent = @ + response.tokens_used]]
            /\ history' = conv1.history
            /\ total_tokens' = conv1.total_tokens
            /\ lastConv' = [op |-> "add_message", prev |-> history]
            /\ budget' = record_usage(budget, response.tokens_used)
            /\ request_history' =
                   Append(request_history,
                          [prompt |-> req[i].prompt, model |-> req[i].model,
                           provider |-> response.provider,
                           tokens |-> response.tokens_used,
                           cached |-> response.cached])
            /\ UNCHANGED <<providers, provider_priority, enable_cache,
                           enable_tools, registered, nchats, max_messages, exec,
                           cacheVars>>

PairNext ==
    \E i \in Tasks : PairStart(i) \/ PairProbe(i) \/ PairFails(i) \/ PairSucceeds(i)

SpecPair == PairInit /\ [][PairNext]_vars

\* C28: of two concurrent chat calls with use_conversation=True, each hands
\* to every provider.chat of its _execute_with_fallback the same message
\* list: the history as it was when the call finished its context
\* preparation, without anything the other call added later.
C28_MessagesFixedAtPreparation ==
    \A i \in Tasks :
        \A k \in 1..Len(exec[i].sent) : exec[i].sent[k] = exec[i].prepared

-----------------------------------------------------------------------------
(* Claims about the size of the cache *)

\* C29: after any sequence of get_cached_response and cache_response calls
\* the cache holds at most max_entries entries.
C29_SizeWithinCapacity == Len(cache) <= max_entries

-----------------------------------------------------------------------------
(* Claims about get_messages *)

\* C30: get_messages(n) with n >= 0 returns the last min(n, L) messages of a
\* history of length L in their order, get_messages() returns the whole
\* history, and neither changes the history or the token total.
C30_ReturnsLastN ==
    [][lastConv'.op = "get_messages" =>
          /\ lastConv'.last_n = {} => lastConv'.result = history
          /\ \A n \in lastConv'.last_n :
                 n >= 0 => lastConv'.result = LastK(history, Min(n, Len(history)))
          /\ history' = history
          /\ total_tokens' = total_tokens]_vars

====
